---- MODULE Spec2Model ----
(***************************************************************************)
(* Model of public/service-worker.js of MovieMaster-Nextjs-PWA: the fetch   *)
(* listener (request router), the three strategies (cacheFirstStrategy,     *)
(* networkFirstStrategy, dynamicCaching), the IndexedDB helpers (addData,   *)
(* getData) and the install / activate lifecycle (cacheCoreAssets,          *)
(* clearOldCaches).                                                         *)
(*                                                                          *)
(* Every `await` of the script is a suspension point and therefore the end  *)
(* of one atomic step of the model.  The platform objects the script calls  *)
(* (CacheStorage, Cache, IndexedDB, fetch, URL, JSON, the service worker    *)
(* registration) are modelled by what the script can observe of them.       *)
(*                                                                          *)
(* Two builds of the script are modelled, numbered 1 and 2.  Build 1 is the *)
(* script as written (CACHE_NAME = "MOVIE_MASTER_V1"); build 2 is the same  *)
(* script deployed again with the version in CACHE_NAME bumped, which is    *)
(* the only way the script's clearOldCaches ever meets a cache to delete.   *)
(***************************************************************************)
EXTENDS Integers, Sequences, FiniteSets, TLC

(***************************************************************************)
(* Bounds of the model.                                                     *)
(***************************************************************************)
\* fetch events dispatched in one behaviour of Spec
MaxRequests == 2
\* fetch events dispatched in one behaviour of SpecRouter
MaxRouted == 1
\* fetch events dispatched in one behaviour of SpecStructured
MaxApiCalls == 3

(***************************************************************************)
(* Program constants.                                                       *)
(***************************************************************************)
CACHE_NAME == "MOVIE_MASTER_V1"

\* The cache name a build of the script uses: build 1 is the source as it
\* stands, build 2 the next deployment with the version bumped.
CacheNameOf(w) == IF w = 1 THEN CACHE_NAME ELSE "MOVIE_MASTER_V2"

Workers == {1, 2}

(***************************************************************************)
(* URLs.  A URL string is a sequence of tokens, so that String.startsWith   *)
(* and URL.origin are computed from the text and not looked up.             *)
(***************************************************************************)
SelfHost == "moviemaster.app"
ApiHost == "www.omdbapi.com"

\* a path of the worker's own origin, as cache.addAll and caches.match
\* resolve a relative URL such as "/fallback"
Resolve(path) == <<"https:", "//", SelfHost, path>>

StartsWith(url, prefix) ==
    /\ Len(url) >= Len(prefix)
    /\ SubSeq(url, 1, Len(prefix)) = prefix

\* new URL(u).origin: a tuple origin for the schemes with a host, the origin
\* of the enclosed URL for blob:, and the opaque origin "null" otherwise
RECURSIVE Origin(_)
Origin(url) ==
    IF url[1] \in {"https:", "http:", "ftp:", "ws:", "wss:"} /\ Len(url) >= 3
    THEN SubSeq(url, 1, 3)
    ELSE IF url[1] = "blob:" /\ Len(url) >= 4 /\ url[2] \in {"https:", "http:"}
    THEN Origin(Tail(url))
    ELSE <<"null">>

\* the literal "https://www.omdbapi.com" of the fetch listener
StructuredOrigin == <<"https:", "//", ApiHost>>

(***************************************************************************)
(* JSON.  A document is a pair <<type, n>>: n is the number itself, 0 / 1   *)
(* for false / true, and an index into the texts below for the rest.        *)
(***************************************************************************)
JNull == <<"null", 0>>
JFalse == <<"boolean", 0>>
JZero == <<"number", 0>>
JOne == <<"number", 1>>
JEmptyString == <<"string", 0>>
JEmptyArray == <<"array", 0>>
JMovie == <<"object", 1>>
JOther == <<"object", 2>>

JsonDocs == {JNull, JFalse, JZero, JOne, JEmptyString, JEmptyArray, JMovie, JOther}

\* JSON.stringify(v)
JSONStringify(v) ==
    CASE v = JNull -> "null"
      [] v = JFalse -> "false"
      [] v = JZero -> "0"
      [] v = JOne -> "1"
      [] v = JEmptyString -> "\"\""
      [] v = JEmptyArray -> "[]"
      [] v = JMovie -> "{\"id\":1}"
      [] v = JOther -> "{\"id\":2}"

\* JSON.parse(s) returns a document or throws a SyntaxError
JSONParses(s) == \E v \in JsonDocs : JSONStringify(v) = s
JSONParse(s) == CHOOSE v \in JsonDocs : JSONStringify(v) = s

\* ToBoolean of a document: null, false, 0 and "" are falsy
Truthy(v) == v \notin {JNull, JFalse, JZero, JEmptyString}

\* ToBoolean of a string
StringTruthy(s) == s # ""

(***************************************************************************)
(* Responses.                                                               *)
(***************************************************************************)
NoResp == [status |-> 0, body |-> ""]

\* Response.ok
Ok(resp) == resp.status >= 200 /\ resp.status <= 299

\* new Response(body, { status: 200 })
NewResponse(body) == [status |-> 200, body |-> body]

(***************************************************************************)
(* State.                                                                   *)
(***************************************************************************)
VARIABLES
    sw,          \* per build: the worker's lifecycle state and its handlers' progress
    active,      \* the registration's active worker (0: none)
    cacheNames,  \* CacheStorage: the ids of the named caches, in creation order
    cacheObj,    \* every Cache object ever created: its name and its entries
    idb,         \* object store "myStore" of database "MovieMaster": url -> record
    proc,        \* one entry per fetch event, in dispatch order
    dispatched   \* fetch events dispatched so far

vars == <<sw, active, cacheNames, cacheObj, idb, proc, dispatched>>

NoReq == [url |-> <<>>, mode |-> "none"]
NoOut == [kind |-> "none", resp |-> NoResp, from |-> "none", gen |-> 0]

IdleProc ==
    [pc |-> "idle", w |-> 0, req |-> NoReq, strategy |-> "none", cache |-> 0,
     resp |-> NoResp, out |-> NoOut, readFailed |-> FALSE,
     fetches |-> 0, cReads |-> 0, cWrites |-> 0, iReads |-> 0, iWrites |-> 0]

NewWorker == [state |-> "none", skipWaiting |-> FALSE, step |-> "none",
              cache |-> 0, pending |-> {}]

(***************************************************************************)
(* CacheStorage and Cache, as the script observes them.  A Cache object     *)
(* outlives caches.delete(name): delete only removes the name, and a handle *)
(* obtained earlier keeps reading and writing the object.                   *)
(***************************************************************************)
NamedIds == {cacheNames[i] : i \in 1..Len(cacheNames)}
CacheKeys == {cacheObj[id].name : id \in NamedIds}
IdOf(name) == CHOOSE id \in NamedIds : cacheObj[id].name = name

\* caches.open(name): the named cache, created empty when there is none
OpenedId(name) == IF name \in CacheKeys THEN IdOf(name) ELSE Len(cacheObj) + 1
NamesAfterOpen(name) ==
    IF name \in CacheKeys THEN cacheNames ELSE Append(cacheNames, Len(cacheObj) + 1)
ObjAfterOpen(name) ==
    IF name \in CacheKeys THEN cacheObj
    ELSE Append(cacheObj, [name |-> name, entries |-> <<>>])

\* cache.match(request) on a handle
Has(id, url) == url \in DOMAIN cacheObj[id].entries
Entry(id, url) == cacheObj[id].entries[url]

\* cache.put(request, response) on a handle
WithEntry(entries, url, resp) ==
    [k \in DOMAIN entries \cup {url} |-> IF k = url THEN resp ELSE entries[k]]
ObjAfterPut(id, url, resp) ==
    [cacheObj EXCEPT ![id].entries = WithEntry(@, url, resp)]

\* the Cache interface rejects a request whose scheme is not http(s)
Cacheable(url) == url[1] \in {"https:", "http:"}

\* caches.match(request): the first cache, in creation order, that holds it
HoldersOf(url) == {i \in 1..Len(cacheNames) : Has(cacheNames[i], url)}
FirstHolder(url) ==
    cacheNames[CHOOSE i \in HoldersOf(url) : \A j \in HoldersOf(url) : i <= j]
CachesMatch(url) ==
    IF HoldersOf(url) = {}
    THEN [kind |-> "undefined", resp |-> NoResp, from |-> "cache", gen |-> 0]
    ELSE [kind |-> "response", resp |-> Entry(FirstHolder(url), url),
          from |-> "cache", gen |-> FirstHolder(url)]

\* caches.delete(name)
NamesAfterDelete(name) == SelectSeq(cacheNames, LAMBDA id : cacheObj[id].name # name)

(***************************************************************************)
(* Lifecycle: the install and activate listeners.                           *)
(***************************************************************************)
\* the list cacheCoreAssets hands to cache.addAll
Manifest == <<"/", "/imdb-logo.svg", "/rotten-tomatoes-logo.svg", "/fallback">>
ManifestUrls == {Resolve(Manifest[i]) : i \in 1..Len(Manifest)}

\* what the server answers for a static resource of the application
PageOk == [status |-> 200, body |-> "page"]
PageMissing == [status |-> 404, body |-> "not found"]

\* cache.addAll(list) once every fetch has answered with an ok response:
\* all the pairs are stored in one batch
EntriesAfterAddAll(entries) ==
    [k \in DOMAIN entries \cup ManifestUrls |->
        IF k \in ManifestUrls THEN PageOk ELSE entries[k]]

\* The browser runs a new build's script and fires "install".  The listener
\* calls cacheCoreAssets(), which runs up to its first await (caches.open is
\* requested), hands the promise to waitUntil, and calls skipWaiting().
\* Build 2 is deployed once build 1 has been activated or discarded.
InstallEvent(w) ==
    /\ sw[w].state = "none"
    /\ w = 1 \/ sw[1].state \in {"activated", "redundant"}
    /\ sw' = [sw EXCEPT ![w].state = "installing", ![w].step = "open",
                        ![w].skipWaiting = TRUE]
    /\ UNCHANGED <<active, cacheNames, cacheObj, idb, proc, dispatched>>

\* cacheCoreAssets: const cache = await caches.open(CACHE_NAME)
CacheCoreAssetsOpen(w) ==
    /\ sw[w].state = "installing" /\ sw[w].step = "open"
    /\ sw' = [sw EXCEPT ![w].step = "addAll", ![w].cache = OpenedId(CacheNameOf(w))]
    /\ cacheNames' = NamesAfterOpen(CacheNameOf(w))
    /\ cacheObj' = ObjAfterOpen(CacheNameOf(w))
    /\ UNCHANGED <<active, idb, proc, dispatched>>

\* cacheCoreAssets: return await cache.addAll([...]) with every fetch ok; the
\* promise given to waitUntil fulfils and the worker becomes installed
CacheCoreAssetsAddAll(w) ==
    /\ sw[w].state = "installing" /\ sw[w].step = "addAll"
    /\ cacheObj' = [cacheObj EXCEPT ![sw[w].cache].entries = EntriesAfterAddAll(@)]
    /\ sw' = [sw EXCEPT ![w].state = "installed", ![w].step = "none"]
    /\ UNCHANGED <<active, cacheNames, idb, proc, dispatched>>

\* CacheCoreAssetsReject as a loop of cache.add would behave: the responses
\* that did arrive are stored before the failure is reported
CacheCoreAssetsRejectPartial(w, failed) ==
    /\ sw[w].state = "installing" /\ sw[w].step = "addAll"
    /\ failed \in ManifestUrls
    /\ cacheObj' = [cacheObj EXCEPT ![sw[w].cache].entries =
                      [k \in DOMAIN @ \cup (ManifestUrls \ {failed}) |->
                          IF k \in ManifestUrls THEN PageOk ELSE @[k]]]
    /\ sw' = [sw EXCEPT ![w].state = "redundant", ![w].step = "failed"]
    /\ UNCHANGED <<active, cacheNames, idb, proc, dispatched>>

\* cacheCoreAssets: one fetch of the list fails or answers with a status that
\* is not ok; addAll rejects, nothing is stored, the promise given to
\* waitUntil rejects and the browser discards the worker
CacheCoreAssetsReject(w, failed) ==
    /\ sw[w].state = "installing" /\ sw[w].step = "addAll"
    /\ failed \in ManifestUrls
    /\ sw' = [sw EXCEPT ![w].state = "redundant", ![w].step = "failed"]
    /\ UNCHANGED <<active, cacheNames, cacheObj, idb, proc, dispatched>>

\* ActivateEvent as it would be if skipWaiting() took effect at once: the
\* worker is activated while cacheCoreAssets is still running
ActivateEventAtOnce(w) ==
    /\ sw[w].state \in {"installing", "installed"}
    /\ sw[w].skipWaiting \/ active = 0
    /\ active' = w
    /\ sw' = [v \in Workers |->
                IF v = w THEN [sw[v] EXCEPT !.state = "activating", !.step = "keys"]
                ELSE IF v = active THEN [sw[v] EXCEPT !.state = "redundant"]
                ELSE sw[v]]
    /\ UNCHANGED <<cacheNames, cacheObj, idb, proc, dispatched>>

\* The browser activates an installed worker whose skipWaiting flag is set
\* (or at once when the registration has no active worker): it becomes the
\* active worker, the worker it replaces becomes redundant (the handlers it
\* is running go on), and "activate" fires.  The listener calls
\* clearOldCaches(), which runs up to its first await (caches.keys is
\* requested), and clients.claim().
ActivateEvent(w) ==
    /\ sw[w].state = "installed"
    /\ sw[w].skipWaiting \/ active = 0
    /\ active' = w
    /\ sw' = [v \in Workers |->
                IF v = w THEN [sw[v] EXCEPT !.state = "activating", !.step = "keys"]
                ELSE IF v = active THEN [sw[v] EXCEPT !.state = "redundant"]
                ELSE sw[v]]
    /\ UNCHANGED <<cacheNames, cacheObj, idb, proc, dispatched>>

\* OldCaches without the filter: every name is taken for an old one
OldCachesAll(names, w) == names

\* clearOldCaches: cacheNames.filter((name) => name !== CACHE_NAME)
OldCaches(names, w) == {n \in names : n # CacheNameOf(w)}

\* clearOldCaches: const cacheNames = await caches.keys(); then filter and
\* map issue caches.delete for every other name at once
ClearOldCachesKeys(w) ==
    /\ sw[w].state = "activating" /\ sw[w].step = "keys"
    /\ sw' = [sw EXCEPT ![w].step = "delete", ![w].pending = OldCaches(CacheKeys, w)]
    /\ UNCHANGED <<active, cacheNames, cacheObj, idb, proc, dispatched>>

\* one of the caches.delete(name) issued by clearOldCaches completes
ClearOldCachesDelete(w, name) ==
    /\ sw[w].state = "activating" /\ sw[w].step = "delete"
    /\ name \in sw[w].pending
    /\ cacheNames' = NamesAfterDelete(name)
    /\ sw' = [sw EXCEPT ![w].pending = @ \ {name}]
    /\ UNCHANGED <<active, cacheObj, idb, proc, dispatched>>

\* Promise.all fulfils, the promise given to waitUntil settles and the
\* worker is activated: from now on it receives the fetch events
Activated(w) ==
    /\ sw[w].state = "activating" /\ sw[w].step = "delete"
    /\ sw[w].pending = {}
    /\ sw' = [sw EXCEPT ![w].state = "activated", ![w].step = "none"]
    /\ UNCHANGED <<active, cacheNames, cacheObj, idb, proc, dispatched>>

(***************************************************************************)
(* The fetch listener.                                                      *)
(***************************************************************************)
\* UnsupportedScheme without the chrome-extension:// test
UnsupportedSchemeThreeTests(url) ==
    \/ StartsWith(url, <<"chrome:", "//">>)
    \/ StartsWith(url, <<"data:">>)
    \/ StartsWith(url, <<"blob:">>)

\* the four request.url.startsWith(...) tests of the listener
UnsupportedScheme(url) ==
    \/ StartsWith(url, <<"chrome-extension:", "//">>)
    \/ StartsWith(url, <<"chrome:", "//">>)
    \/ StartsWith(url, <<"data:">>)
    \/ StartsWith(url, <<"blob:">>)

\* Classify with the mode test ahead of the origin test
ClassifyNavigateFirst(req) ==
    IF UnsupportedScheme(req.url) THEN "Bypass"
    ELSE IF req.mode = "navigate" THEN "CacheFirst"
    ELSE IF Origin(req.url) = StructuredOrigin THEN "NetworkFirstStructured"
    ELSE "OpportunisticCache"

\* the listener's chain of tests, in its order
Classify(req) ==
    IF UnsupportedScheme(req.url) THEN "Bypass"
    ELSE IF Origin(req.url) = StructuredOrigin THEN "NetworkFirstStructured"
    ELSE IF req.mode = "navigate" THEN "CacheFirst"
    ELSE "OpportunisticCache"

\* where the strategy the listener calls stops at its first await
FirstStep(strategy) ==
    CASE strategy = "Bypass" -> "done"
      [] strategy = "NetworkFirstStructured" -> "nf_fetch"
      [] strategy = "CacheFirst" -> "cf_open"
      [] strategy = "OpportunisticCache" -> "dc_open"

\* `return` without respondWith: the browser handles the request itself
DefaultHandling == [kind |-> "default", resp |-> NoResp, from |-> "none", gen |-> 0]

\* The browser dispatches the next fetch event to the active worker, which
\* it does only once that worker is activated.
FetchEvent(p, req) ==
    /\ p \in DOMAIN proc /\ p = dispatched + 1
    /\ active # 0 /\ sw[active].state = "activated"
    /\ dispatched' = p
    /\ proc' = [proc EXCEPT ![p] =
                  [IdleProc EXCEPT !.pc = FirstStep(Classify(req)), !.w = active,
                                   !.req = req, !.strategy = Classify(req),
                                   !.out = IF Classify(req) = "Bypass"
                                           THEN DefaultHandling ELSE NoOut]]
    /\ UNCHANGED <<sw, active, cacheNames, cacheObj, idb>>

(***************************************************************************)
(* The network, as fetch(request) shows it to the script.                   *)
(***************************************************************************)
\* fetch() resolves only for the schemes the browser can fetch from a worker
Fetchable(url) == url[1] \in {"https:", "http:", "moz-extension:", "chrome-extension:"}

FromNetwork(resp) == [kind |-> "response", resp |-> resp, from |-> "network", gen |-> 0]
Undefined == [kind |-> "undefined", resp |-> NoResp, from |-> "none", gen |-> 0]
Rejected == [kind |-> "error", resp |-> NoResp, from |-> "none", gen |-> 0]

(***************************************************************************)
(* cacheFirstStrategy.                                                      *)
(***************************************************************************)
\* the key of the catch block: caches.match("/offline")
OfflineKey == Resolve("/offline")

\* const cache = await caches.open(CACHE_NAME)
CacheFirstOpen(p) ==
    /\ proc[p].pc = "cf_open"
    /\ proc' = [proc EXCEPT ![p].pc = "cf_match",
                            ![p].cache = OpenedId(CacheNameOf(proc[p].w))]
    /\ cacheNames' = NamesAfterOpen(CacheNameOf(proc[p].w))
    /\ cacheObj' = ObjAfterOpen(CacheNameOf(proc[p].w))
    /\ UNCHANGED <<sw, active, idb, dispatched>>

\* what cacheFirstStrategy returns when cache.match found a response
CacheFirstHit(id, url) ==
    [kind |-> "response", resp |-> Entry(id, url), from |-> "cache", gen |-> id]

\* CacheFirstMatch that goes to the network whatever cache.match found
CacheFirstMatchRevalidates(p) ==
    /\ proc[p].pc = "cf_match"
    /\ proc' = [proc EXCEPT ![p].pc = "cf_fetch", ![p].cReads = @ + 1]
    /\ UNCHANGED <<sw, active, cacheNames, cacheObj, idb, dispatched>>

\* const cachedResponse = await cache.match(request);
\* if (cachedResponse) return cachedResponse; otherwise fetch(request) is issued
CacheFirstMatch(p) ==
    /\ proc[p].pc = "cf_match"
    /\ IF Has(proc[p].cache, proc[p].req.url)
       THEN proc' = [proc EXCEPT ![p].pc = "done", ![p].cReads = @ + 1,
                                 ![p].out = CacheFirstHit(proc[p].cache, proc[p].req.url)]
       ELSE proc' = [proc EXCEPT ![p].pc = "cf_fetch", ![p].cReads = @ + 1]
    /\ UNCHANGED <<sw, active, cacheNames, cacheObj, idb, dispatched>>

\* CacheFirstFetch with the `if (response.ok)` test of dynamicCaching: a
\* response that is not ok is returned without being stored
CacheFirstFetchStoresOnlyOk(p, resp) ==
    /\ proc[p].pc = "cf_fetch"
    /\ Fetchable(proc[p].req.url)
    /\ proc' = [proc EXCEPT ![p].pc = IF Ok(resp) THEN "cf_put" ELSE "done",
                            ![p].fetches = @ + 1, ![p].resp = resp,
                            ![p].out = IF Ok(resp) THEN NoOut ELSE FromNetwork(resp)]
    /\ UNCHANGED <<sw, active, cacheNames, cacheObj, idb, dispatched>>

\* CacheFirstFetch with cache.put(request, responseClone) not awaited: the
\* network response is returned while the write is still outstanding
CacheFirstFetchNoAwait(p, resp) ==
    /\ proc[p].pc = "cf_fetch"
    /\ Fetchable(proc[p].req.url)
    /\ proc' = [proc EXCEPT ![p].pc = "done", ![p].fetches = @ + 1, ![p].resp = resp,
                            ![p].out = FromNetwork(resp)]
    /\ UNCHANGED <<sw, active, cacheNames, cacheObj, idb, dispatched>>

\* const networkResponse = await fetch(request): a response arrives, and
\* cache.put(request, responseClone) is issued
CacheFirstFetch(p, resp) ==
    /\ proc[p].pc = "cf_fetch"
    /\ Fetchable(proc[p].req.url)
    /\ proc' = [proc EXCEPT ![p].pc = "cf_put", ![p].fetches = @ + 1, ![p].resp = resp]
    /\ UNCHANGED <<sw, active, cacheNames, cacheObj, idb, dispatched>>

\* await fetch(request) rejects: control passes to the catch block
CacheFirstFetchFails(p) ==
    /\ proc[p].pc = "cf_fetch"
    /\ proc' = [proc EXCEPT ![p].pc = "cf_catch", ![p].fetches = @ + 1]
    /\ UNCHANGED <<sw, active, cacheNames, cacheObj, idb, dispatched>>

\* await cache.put(request, responseClone) commits; return networkResponse
CacheFirstPut(p) ==
    /\ proc[p].pc = "cf_put"
    /\ Cacheable(proc[p].req.url)
    /\ cacheObj' = ObjAfterPut(proc[p].cache, proc[p].req.url, proc[p].resp)
    /\ proc' = [proc EXCEPT ![p].pc = "done", ![p].cWrites = @ + 1,
                            ![p].out = FromNetwork(proc[p].resp)]
    /\ UNCHANGED <<sw, active, cacheNames, idb, dispatched>>

\* await cache.put(...) rejects (the scheme is not http(s), or the storage
\* refuses the write): control passes to the catch block
CacheFirstPutFails(p) ==
    /\ proc[p].pc = "cf_put"
    /\ proc' = [proc EXCEPT ![p].pc = "cf_catch", ![p].cWrites = @ + 1]
    /\ UNCHANGED <<sw, active, cacheNames, cacheObj, idb, dispatched>>

\* catch: return caches.match("/offline")
CacheFirstCatch(p) ==
    /\ proc[p].pc = "cf_catch"
    /\ proc' = [proc EXCEPT ![p].pc = "done", ![p].cReads = @ + 1,
                            ![p].out = CachesMatch(OfflineKey)]
    /\ UNCHANGED <<sw, active, cacheNames, cacheObj, idb, dispatched>>

(***************************************************************************)
(* IndexedDB helpers and networkFirstStrategy.                              *)
(***************************************************************************)
\* addData: the record store.put writes, keyPath "url"
Record(url, jsonData) == [url |-> url, response |-> JSONStringify(jsonData)]

\* IdbAfterPut as store.add would do it: a record already stored is kept
IdbAfterAdd(url, jsonData) ==
    [k \in DOMAIN idb \cup {url} |-> IF k \in DOMAIN idb THEN idb[k] ELSE Record(url, jsonData)]

IdbAfterPut(url, jsonData) ==
    [k \in DOMAIN idb \cup {url} |-> IF k = url THEN Record(url, jsonData) ELSE idb[k]]

\* getData: what the function returns; readOk is whether openDb, the
\* transaction and store.get all succeeded
GetData(url, readOk) ==
    IF ~readOk THEN JNull
    ELSE IF url \in DOMAIN idb /\ StringTruthy(idb[url].response)
    THEN (IF JSONParses(idb[url].response) THEN JSONParse(idb[url].response) ELSE JNull)
    ELSE JNull

\* FallbackResponse without the last return: nothing is returned when
\* getData gave nothing
FallbackResponseOrNothing(cachedResponse) ==
    IF Truthy(cachedResponse)
    THEN [kind |-> "response", resp |-> NewResponse(JSONStringify(cachedResponse)),
          from |-> "idb", gen |-> 0]
    ELSE Undefined

\* the catch block of networkFirstStrategy, given what getData returned
FallbackResponse(cachedResponse) ==
    IF Truthy(cachedResponse)
    THEN [kind |-> "response", resp |-> NewResponse(JSONStringify(cachedResponse)),
          from |-> "idb", gen |-> 0]
    ELSE [kind |-> "response", resp |-> NewResponse("[]"), from |-> "synth", gen |-> 0]

\* const networkResponse = await fetch(request) resolves with an ok response
\* and await responseClone.json() decodes it: addData(request.url, data) runs
NetworkFirstFetch(p, resp) ==
    /\ proc[p].pc = "nf_fetch"
    /\ Ok(resp) /\ JSONParses(resp.body)
    /\ proc' = [proc EXCEPT ![p].pc = "nf_add", ![p].fetches = @ + 1, ![p].resp = resp]
    /\ UNCHANGED <<sw, active, cacheNames, cacheObj, idb, dispatched>>

\* fetch resolves with a response that is not ok (throw new Error), or
\* whose body json() cannot decode: control passes to the catch block
NetworkFirstBadResponse(p, resp) ==
    /\ proc[p].pc = "nf_fetch"
    /\ ~Ok(resp) \/ ~JSONParses(resp.body)
    /\ proc' = [proc EXCEPT ![p].pc = "nf_catch", ![p].fetches = @ + 1]
    /\ UNCHANGED <<sw, active, cacheNames, cacheObj, idb, dispatched>>

\* await fetch(request) rejects: control passes to the catch block
NetworkFirstFetchFails(p) ==
    /\ proc[p].pc = "nf_fetch"
    /\ proc' = [proc EXCEPT ![p].pc = "nf_catch", ![p].fetches = @ + 1]
    /\ UNCHANGED <<sw, active, cacheNames, cacheObj, idb, dispatched>>

\* NetworkFirstAddData that also keeps the response in the cache of the
\* build, as the other two strategies do
NetworkFirstAddDataAndCache(p) ==
    /\ proc[p].pc = "nf_add"
    /\ idb' = IdbAfterPut(proc[p].req.url, JSONParse(proc[p].resp.body))
    /\ cacheNames' = NamesAfterOpen(CacheNameOf(proc[p].w))
    /\ cacheObj' = [ObjAfterOpen(CacheNameOf(proc[p].w)) EXCEPT
                       ![OpenedId(CacheNameOf(proc[p].w))].entries =
                           WithEntry(@, proc[p].req.url, proc[p].resp)]
    /\ proc' = [proc EXCEPT ![p].pc = "done", ![p].iWrites = @ + 1,
                            ![p].out = FromNetwork(proc[p].resp)]
    /\ UNCHANGED <<sw, active, dispatched>>

\* await addData(request.url, responseData) commits; return networkResponse
NetworkFirstAddData(p) ==
    /\ proc[p].pc = "nf_add"
    /\ idb' = IdbAfterPut(proc[p].req.url, JSONParse(proc[p].resp.body))
    /\ proc' = [proc EXCEPT ![p].pc = "done", ![p].iWrites = @ + 1,
                            ![p].out = FromNetwork(proc[p].resp)]
    /\ UNCHANGED <<sw, active, cacheNames, cacheObj, dispatched>>

\* addData rejects (openDb or store.put fails): control passes to the catch block
NetworkFirstAddDataFails(p) ==
    /\ proc[p].pc = "nf_add"
    /\ proc' = [proc EXCEPT ![p].pc = "nf_catch", ![p].iWrites = @ + 1]
    /\ UNCHANGED <<sw, active, cacheNames, cacheObj, idb, dispatched>>

\* catch: const cachedResponse = await getData(request.url); then one of the
\* two synthesized responses
NetworkFirstCatch(p, readOk) ==
    /\ proc[p].pc = "nf_catch"
    /\ proc' = [proc EXCEPT ![p].pc = "done", ![p].iReads = @ + 1,
                            ![p].readFailed = ~readOk,
                            ![p].out = FallbackResponse(GetData(proc[p].req.url, readOk))]
    /\ UNCHANGED <<sw, active, cacheNames, cacheObj, idb, dispatched>>

(***************************************************************************)
(* dynamicCaching.                                                          *)
(***************************************************************************)
\* the four url.startsWith(...) tests of dynamicCaching
SkipsCaching(url) ==
    \/ StartsWith(url, <<"chrome-extension:", "//">>)
    \/ StartsWith(url, <<"chrome:", "//">>)
    \/ StartsWith(url, <<"data:">>)
    \/ StartsWith(url, <<"blob:">>)

\* the key of the catch block: caches.match('/fallback')
FallbackKey == Resolve("/fallback")

\* a || b where a is a Promise: an object, always truthy, so b is not evaluated
PromiseOr(a, b) == a

\* catch: return caches.match(request) || caches.match('/fallback')
DynamicCachingFallback(url) == PromiseOr(CachesMatch(url), CachesMatch(FallbackKey))

\* the synchronous start of dynamicCaching: a url it does not cache is
\* handed to fetch and the fetch promise is returned as it is; for any
\* other url, const cache = await caches.open(cacheName)
DynamicCachingOpen(p) ==
    /\ proc[p].pc = "dc_open"
    /\ IF SkipsCaching(proc[p].req.url)
       THEN /\ proc' = [proc EXCEPT ![p].pc = "dc_pass"]
            /\ UNCHANGED <<cacheNames, cacheObj>>
       ELSE /\ proc' = [proc EXCEPT ![p].pc = "dc_fetch",
                                    ![p].cache = OpenedId(CacheNameOf(proc[p].w))]
            /\ cacheNames' = NamesAfterOpen(CacheNameOf(proc[p].w))
            /\ cacheObj' = ObjAfterOpen(CacheNameOf(proc[p].w))
    /\ UNCHANGED <<sw, active, idb, dispatched>>

\* const response = await fetch(request) resolves; an ok response goes on
\* to cache.put, any other is returned as it is (and so is every response
\* of the fetch returned for a url the function does not cache)
DynamicCachingFetch(p, resp) ==
    /\ proc[p].pc \in {"dc_fetch", "dc_pass"}
    /\ Fetchable(proc[p].req.url)
    /\ LET stores == proc[p].pc = "dc_fetch" /\ Ok(resp) IN
       proc' = [proc EXCEPT ![p].pc = IF stores THEN "dc_put" ELSE "done",
                            ![p].fetches = @ + 1, ![p].resp = resp,
                            ![p].out = IF stores THEN NoOut ELSE FromNetwork(resp)]
    /\ UNCHANGED <<sw, active, cacheNames, cacheObj, idb, dispatched>>

\* await fetch(request) rejects: control passes to the catch block (the
\* fetch promise returned without await rejects past it)
DynamicCachingFetchFails(p) ==
    /\ proc[p].pc \in {"dc_fetch", "dc_pass"}
    /\ proc' = [proc EXCEPT ![p].pc = IF proc[p].pc = "dc_fetch" THEN "dc_catch" ELSE "done",
                            ![p].fetches = @ + 1,
                            ![p].out = IF proc[p].pc = "dc_fetch" THEN NoOut ELSE Rejected]
    /\ UNCHANGED <<sw, active, cacheNames, cacheObj, idb, dispatched>>

\* await cache.put(request.clone(), response.clone()) commits; return response
DynamicCachingPut(p) ==
    /\ proc[p].pc = "dc_put"
    /\ Cacheable(proc[p].req.url)
    /\ cacheObj' = ObjAfterPut(proc[p].cache, proc[p].req.url, proc[p].resp)
    /\ proc' = [proc EXCEPT ![p].pc = "done", ![p].cWrites = @ + 1,
                            ![p].out = FromNetwork(proc[p].resp)]
    /\ UNCHANGED <<sw, active, cacheNames, idb, dispatched>>

\* await cache.put(...) rejects: control passes to the catch block
DynamicCachingPutFails(p) ==
    /\ proc[p].pc = "dc_put"
    /\ proc' = [proc EXCEPT ![p].pc = "dc_catch", ![p].cWrites = @ + 1]
    /\ UNCHANGED <<sw, active, cacheNames, cacheObj, idb, dispatched>>

\* the catch block
DynamicCachingCatch(p) ==
    /\ proc[p].pc = "dc_catch"
    /\ proc' = [proc EXCEPT ![p].pc = "done", ![p].cReads = @ + 1,
                            ![p].out = DynamicCachingFallback(proc[p].req.url)]
    /\ UNCHANGED <<sw, active, cacheNames, cacheObj, idb, dispatched>>

(***************************************************************************)
(* Spec: two builds, their lifecycles, and a few requests in flight.        *)
(***************************************************************************)
ApiUrl == <<"https:", "//", ApiHost, "/?t=alien">>

PageReq == [url |-> Resolve("/movie"), mode |-> "navigate"]
RootReq == [url |-> Resolve("/"), mode |-> "navigate"]
AssetReq == [url |-> Resolve("/poster.png"), mode |-> "no-cors"]
ApiReq == [url |-> ApiUrl, mode |-> "cors"]

Requests == {PageReq, RootReq, AssetReq, ApiReq}

\* what the servers may answer
PageResponses == {PageOk, PageMissing}
ApiResponses == {[status |-> 200, body |-> JSONStringify(JMovie)],
                 [status |-> 401, body |-> JSONStringify(JOther)]}

Init ==
    /\ sw = [w \in Workers |-> NewWorker]
    /\ active = 0
    /\ cacheNames = <<>>
    /\ cacheObj = <<>>
    /\ idb = <<>>
    /\ proc = [p \in 1..MaxRequests |-> IdleProc]
    /\ dispatched = 0

Lifecycle ==
    \/ \E w \in Workers : InstallEvent(w)
    \/ \E w \in Workers : CacheCoreAssetsOpen(w)
    \/ \E w \in Workers : CacheCoreAssetsAddAll(w)
    \/ \E w \in Workers, u \in ManifestUrls : CacheCoreAssetsReject(w, u)
    \/ \E w \in Workers : ActivateEvent(w)
    \/ \E w \in Workers : ClearOldCachesKeys(w)
    \/ \E w \in Workers, n \in CacheKeys : ClearOldCachesDelete(w, n)
    \/ \E w \in Workers : Activated(w)

CacheFirstSteps(resps) ==
    \/ \E p \in DOMAIN proc : CacheFirstOpen(p)
    \/ \E p \in DOMAIN proc : CacheFirstMatch(p)
    \/ \E p \in DOMAIN proc, r \in resps : CacheFirstFetch(p, r)
    \/ \E p \in DOMAIN proc : CacheFirstFetchFails(p)
    \/ \E p \in DOMAIN proc : CacheFirstPut(p)
    \/ \E p \in DOMAIN proc : CacheFirstPutFails(p)
    \/ \E p \in DOMAIN proc : CacheFirstCatch(p)

NetworkFirstSteps(resps) ==
    \/ \E p \in DOMAIN proc, r \in resps : NetworkFirstFetch(p, r)
    \/ \E p \in DOMAIN proc, r \in resps : NetworkFirstBadResponse(p, r)
    \/ \E p \in DOMAIN proc : NetworkFirstFetchFails(p)
    \/ \E p \in DOMAIN proc : NetworkFirstAddData(p)
    \/ \E p \in DOMAIN proc : NetworkFirstAddDataFails(p)
    \/ \E p \in DOMAIN proc, readOk \in BOOLEAN : NetworkFirstCatch(p, readOk)

DynamicCachingSteps(resps) ==
    \/ \E p \in DOMAIN proc : DynamicCachingOpen(p)
    \/ \E p \in DOMAIN proc, r \in resps : DynamicCachingFetch(p, r)
    \/ \E p \in DOMAIN proc : DynamicCachingFetchFails(p)
    \/ \E p \in DOMAIN proc : DynamicCachingPut(p)
    \/ \E p \in DOMAIN proc : DynamicCachingPutFails(p)
    \/ \E p \in DOMAIN proc : DynamicCachingCatch(p)

Next ==
    \/ Lifecycle
    \/ \E req \in Requests : dispatched < MaxRequests /\ FetchEvent(dispatched + 1, req)
    \/ CacheFirstSteps(PageResponses)
    \/ NetworkFirstSteps(ApiResponses)
    \/ DynamicCachingSteps(PageResponses)

Spec == Init /\ [][Next]_vars

(***************************************************************************)
(* SpecRouter: the same system with requests of every kind of URL.          *)
(***************************************************************************)
RouterUrls ==
    { Resolve("/movie"),
      ApiUrl,
      <<"http:", "//", ApiHost, "/?t=alien">>,
      <<"chrome-extension:", "//", "abcdef", "/content.js">>,
      <<"chrome:", "//", "settings">>,
      <<"data:", "text/plain,hello">>,
      <<"blob:", "https:", "//", ApiHost, "/0b1c">>,
      <<"ftp:", "//", "files.example", "/poster.png">>,
      <<"moz-extension:", "//", "abcdef", "/content.js">> }

RouterRequests == [url : RouterUrls, mode : {"navigate", "cors"}]

InitRouter ==
    /\ sw = [w \in Workers |-> NewWorker]
    /\ active = 0
    /\ cacheNames = <<>>
    /\ cacheObj = <<>>
    /\ idb = <<>>
    /\ proc = [p \in 1..MaxRouted |-> IdleProc]
    /\ dispatched = 0

NextRouter ==
    \/ Lifecycle
    \/ \E req \in RouterRequests : dispatched < MaxRouted /\ FetchEvent(dispatched + 1, req)
    \/ CacheFirstSteps(PageResponses)
    \/ NetworkFirstSteps(ApiResponses)
    \/ DynamicCachingSteps(PageResponses)

SpecRouter == InitRouter /\ [][NextRouter]_vars

(***************************************************************************)
(* Properties of the request router.                                        *)
(***************************************************************************)
Dispatched(p) == proc[p].pc # "idle"
Done(p) == proc[p].pc = "done"

\* a URL with one of the four unsupported-scheme prefixes, read off its text
HasBypassPrefix(url) ==
    \/ url[1] \in {"data:", "blob:"}
    \/ url[1] \in {"chrome-extension:", "chrome:"} /\ Len(url) >= 2 /\ url[2] = "//"

\* a URL of the structured API: https, host www.omdbapi.com, default port
IsApiUrl(url) == Len(url) >= 3 /\ url[1] = "https:" /\ url[2] = "//" /\ url[3] = ApiHost

\* the strategy whose code a handler is running
Running(p) ==
    CASE proc[p].pc \in {"cf_open", "cf_match", "cf_fetch", "cf_put", "cf_catch"} -> "CacheFirst"
      [] proc[p].pc \in {"nf_fetch", "nf_add", "nf_catch"} -> "NetworkFirstStructured"
      [] proc[p].pc \in {"dc_open", "dc_pass", "dc_fetch", "dc_put", "dc_catch"} -> "OpportunisticCache"
      [] OTHER -> proc[p].strategy

\* C1: every intercepted request is handled by exactly one strategy, chosen
\* by the rules in this order: unsupported scheme -> Bypass; else structured
\* API origin -> NetworkFirstStructured; else mode navigate -> CacheFirst;
\* else OpportunisticCache.  The choice is a function of the request's url
\* and mode alone: whatever the stores hold and whatever the lifecycle state,
\* two requests with the same url and mode get the same strategy.
C1_RouterRules ==
    /\ \A p \in DOMAIN proc : Dispatched(p) =>
          /\ proc[p].strategy =
                (IF HasBypassPrefix(proc[p].req.url) THEN "Bypass"
                 ELSE IF IsApiUrl(proc[p].req.url) THEN "NetworkFirstStructured"
                 ELSE IF proc[p].req.mode = "navigate" THEN "CacheFirst"
                 ELSE "OpportunisticCache")
          /\ Running(p) = proc[p].strategy
    /\ \A p, q \in DOMAIN proc :
          Dispatched(p) /\ Dispatched(q) /\ proc[p].req = proc[q].req
             => proc[p].strategy = proc[q].strategy

\* a navigation to the structured API origin was served by networkFirstStrategy
C1_Witness ==
    \E p \in DOMAIN proc :
        /\ Done(p) /\ proc[p].req.mode = "navigate" /\ IsApiUrl(proc[p].req.url)
        /\ proc[p].strategy = "NetworkFirstStructured"
        /\ proc[p].out.kind = "response"

\* C2: every request whose URL scheme is not http or https is classified
\* Bypass (and that test comes before every other rule).
C2_NonHttpIsBypass ==
    \A p \in DOMAIN proc :
        Dispatched(p) /\ proc[p].req.url[1] \notin {"http:", "https:"}
            => proc[p].strategy = "Bypass"

\* C3: handling a request classified Bypass reads and writes neither store:
\* the step that handles it leaves the Response Store and the Structured
\* Store as they were, the handler is finished with that step, and its
\* counters of store accesses (and of fetches issued by the script) are zero.
C3_BypassTouchesNoStore ==
    [][\A p \in DOMAIN proc :
          (proc[p].pc = "idle" /\ proc'[p].pc # "idle" /\ HasBypassPrefix(proc'[p].req.url))
             => /\ cacheNames' = cacheNames /\ cacheObj' = cacheObj /\ idb' = idb
                /\ proc'[p].pc = "done"
                /\ proc'[p].out.kind = "default"
                /\ proc'[p].cReads = 0 /\ proc'[p].cWrites = 0
                /\ proc'[p].iReads = 0 /\ proc'[p].iWrites = 0
                /\ proc'[p].fetches = 0]_vars

\* a chrome-extension: navigation was left to the browser while the active
\* generation held its entries
C3_Witness ==
    \E p \in DOMAIN proc :
        /\ Done(p) /\ proc[p].strategy = "Bypass"
        /\ proc[p].req.url[1] = "chrome-extension:" /\ proc[p].req.mode = "navigate"
        /\ proc[p].out.kind = "default"
        /\ \E id \in NamedIds : DOMAIN cacheObj[id].entries # {}

(***************************************************************************)
(* SpecStructured: build 1 is installed and activated, and the application  *)
(* calls the structured API, whose documents include the falsy ones.        *)
(***************************************************************************)
StructuredDocs == {JMovie, JNull, JZero, JFalse, JEmptyString}

StructuredResponses ==
    {[status |-> 200, body |-> JSONStringify(d)] : d \in StructuredDocs}
    \cup {[status |-> 200, body |-> "<html>"], [status |-> 500, body |-> "{\"id\":1}"]}

\* the state build 1 is in once its install and activate handlers have run
InitStructured ==
    /\ sw = [w \in Workers |->
               IF w = 1 THEN [NewWorker EXCEPT !.state = "activated", !.skipWaiting = TRUE,
                                               !.cache = 1]
               ELSE NewWorker]
    /\ active = 1
    /\ cacheNames = <<1>>
    /\ cacheObj = <<[name |-> CACHE_NAME, entries |-> EntriesAfterAddAll(<<>>)]>>
    /\ idb = <<>>
    /\ proc = [p \in 1..MaxApiCalls |-> IdleProc]
    /\ dispatched = 0

NextStructured ==
    \/ dispatched < MaxApiCalls /\ FetchEvent(dispatched + 1, ApiReq)
    \/ NetworkFirstSteps(StructuredResponses)

SpecStructured == InitStructured /\ [][NextStructured]_vars

(***************************************************************************)
(* Properties of cacheFirstStrategy.                                        *)
(***************************************************************************)
IsCacheFirst(p) == proc[p].strategy = "CacheFirst"

\* the generation a handler works on: the one its build names
Generation(p) == CacheNameOf(proc[p].w)

\* the call found the request in the generation it opened
Hit(p) == Done(p) /\ proc[p].fetches = 0 /\ proc[p].out.from = "cache"
              /\ proc[p].out.gen = proc[p].cache

\* C4 as claimed: a call for a navigable request that is not in the
\* generation performs exactly one network fetch and exactly one Response
\* Store write, and every later call for the same request performs zero
\* network fetches and returns the stored response.
C4_OneFetchOneWrite ==
    \A p \in DOMAIN proc : IsCacheFirst(p) /\ Done(p) =>
        /\ ~Hit(p) => proc[p].fetches = 1 /\ proc[p].cWrites = 1
        /\ \A q \in DOMAIN proc :
              (q > p /\ Done(q) /\ IsCacheFirst(q) /\ proc[q].req = proc[p].req
                 /\ Generation(q) = Generation(p) /\ ~Hit(p))
                => Hit(q)

\* C4 as amended: a call that does not find the request in the generation
\* it opened issues exactly one network fetch, and exactly one Response
\* Store write when that fetch yields a response and none when it fails; a
\* call that finds the request there issues no fetch and no write and
\* returns the stored response unmodified; and a committed write leaves the
\* response in that generation for good, so every call that opens the
\* generation afterwards finds it.
C4_CacheFirstCounts ==
    /\ [](\A p \in DOMAIN proc : IsCacheFirst(p) =>
            /\ proc[p].fetches <= 1
            /\ proc[p].cWrites = (IF proc[p].pc \in {"cf_catch", "done"}
                                     /\ proc[p].resp # NoResp THEN 1 ELSE 0)
            /\ proc[p].resp # NoResp => proc[p].fetches = 1
            /\ (Done(p) /\ ~Hit(p)) => proc[p].fetches = 1)
    /\ [][\A p \in DOMAIN proc :
            /\ (proc[p].pc = "cf_match" /\ proc'[p].pc # "cf_match") =>
                  IF Has(proc[p].cache, proc[p].req.url)
                  THEN /\ proc'[p].pc = "done"
                       /\ proc'[p].fetches = 0 /\ proc'[p].cWrites = 0
                       /\ proc'[p].out.kind = "response"
                       /\ proc'[p].out.resp = Entry(proc[p].cache, proc[p].req.url)
                       /\ cacheObj' = cacheObj
                  ELSE proc'[p].pc = "cf_fetch"
            /\ (proc[p].pc = "cf_put" /\ proc'[p].pc = "done") =>
                  /\ Has(proc[p].cache, proc[p].req.url)'
                  /\ Entry(proc[p].cache, proc[p].req.url)' = proc[p].resp
                  /\ proc'[p].out.resp = proc[p].resp
         ]_vars
    /\ [][\A id \in 1..Len(cacheObj) :
            DOMAIN cacheObj[id].entries \subseteq DOMAIN cacheObj'[id].entries]_vars

\* a first call fetched and stored a page, and a later call for it was
\* answered from the generation without a fetch
C4_Witness ==
    \E p, q \in DOMAIN proc :
        /\ p < q /\ IsCacheFirst(p) /\ IsCacheFirst(q) /\ proc[p].req = proc[q].req
        /\ Done(p) /\ proc[p].fetches = 1 /\ proc[p].cWrites = 1
        /\ proc[p].out.from = "network"
        /\ Hit(q) /\ proc[q].out.resp = proc[p].resp

\* C5: when the network fetch fails for a request that is not in the
\* generation, cacheFirstStrategy returns the offline fallback that the
\* install step stored: the key it looks up is a key of the manifest.
C5_OfflineFallbackProvisioned ==
    \A p \in DOMAIN proc :
        (IsCacheFirst(p) /\ Done(p) /\ proc[p].fetches = 1 /\ proc[p].resp = NoResp)
            => /\ proc[p].out.kind = "response"
               /\ OfflineKey \in ManifestUrls

(***************************************************************************)
(* Properties of networkFirstStrategy and of the Structured Store.          *)
(***************************************************************************)
IsNetworkFirst(p) == proc[p].strategy = "NetworkFirstStructured"

\* the handler leaves its catch block with this step
LeavesCatch(p) == proc[p].pc = "nf_catch" /\ proc'[p].pc = "done"

\* the handler's addData commits with this step
CommitsPut(p) == proc[p].pc = "nf_add" /\ proc'[p].pc = "done"

\* C6: round trip.  Once a request to u has succeeded with document d the
\* Structured Store holds {url: u, response: d serialized}, and a later call
\* for u that ends in the catch block, with the store readable, returns a
\* 200 response whose body deserializes to the stored document, falsy
\* documents included.
C6_RoundTrip ==
    [][\A p \in DOMAIN proc :
          /\ CommitsPut(p) =>
                /\ proc[p].req.url \in DOMAIN idb'
                /\ idb'[proc[p].req.url].url = proc[p].req.url
                /\ JSONParse(idb'[proc[p].req.url].response) = JSONParse(proc[p].resp.body)
          /\ (LeavesCatch(p) /\ ~proc'[p].readFailed /\ proc[p].req.url \in DOMAIN idb) =>
                /\ proc'[p].out.kind = "response"
                /\ proc'[p].out.resp.status = 200
                /\ JSONParses(proc'[p].out.resp.body)
                /\ JSONParse(proc'[p].out.resp.body)
                      = JSONParse(idb[proc[p].req.url].response)
      ]_vars

\* C7: networkFirstStrategy never fails.  Whatever fails (the fetch, the
\* status, the decoding, the write, the read), the handler ends with a
\* response whose status is a success status and whose body is a JSON
\* text; and when the catch block gets no record for the url (none is
\* stored, or the read fails) the body is "[]".
C7_NeverFails ==
    /\ [](\A p \in DOMAIN proc : (IsNetworkFirst(p) /\ Done(p)) =>
            /\ proc[p].out.kind = "response"
            /\ Ok(proc[p].out.resp)
            /\ JSONParses(proc[p].out.resp.body))
    /\ [][\A p \in DOMAIN proc :
            (LeavesCatch(p) /\ (proc'[p].readFailed \/ proc[p].req.url \notin DOMAIN idb)) =>
                /\ proc'[p].out.resp.status = 200
                /\ proc'[p].out.resp.body = "[]"
         ]_vars

\* the write failed after a successful fetch, then the read failed too, and
\* the handler still answered 200 with "[]"
C7_Witness ==
    \E p \in DOMAIN proc :
        /\ IsNetworkFirst(p) /\ Done(p)
        /\ proc[p].fetches = 1 /\ proc[p].iWrites = 1 /\ proc[p].iReads = 1
        /\ proc[p].readFailed
        /\ proc[p].out.resp = NewResponse("[]")

\* C10: the Structured Store holds one record per url, keyed by its url; a
\* committed addData replaces the record of its url by its own payload,
\* whole, and touches no other record; nothing else changes a record.  So
\* getData returns the payload of the addData that committed last.
C10_LastWriteWins ==
    /\ [](\A u \in DOMAIN idb : idb[u].url = u)
    /\ [][\A p \in DOMAIN proc : CommitsPut(p) =>
             /\ GetData(proc[p].req.url, TRUE)' = JSONParse(proc[p].resp.body)
             /\ idb'[proc[p].req.url] = Record(proc[p].req.url, JSONParse(proc[p].resp.body))
             /\ \A u \in DOMAIN idb : u # proc[p].req.url => idb'[u] = idb[u]
         ]_vars
    /\ [][(idb' # idb) => \E p \in DOMAIN proc : CommitsPut(p)]_vars

\* two calls stored different documents one after the other, and a third
\* call, offline, read the second one back
C10_Witness ==
    \E p, q, r \in DOMAIN proc :
        /\ p < q /\ q < r
        /\ Done(p) /\ proc[p].iWrites = 1 /\ proc[p].out.from = "network"
        /\ Done(q) /\ proc[q].iWrites = 1 /\ proc[q].out.from = "network"
        /\ proc[p].resp # proc[q].resp
        /\ idb[ApiUrl].response = proc[q].resp.body
        /\ Done(r) /\ proc[r].out.from = "idb"
        /\ proc[r].out.resp.body = proc[q].resp.body

(***************************************************************************)
(* Properties of the lifecycle.                                             *)
(***************************************************************************)
\* the handler's step is a lookup that returned a stored response
LookupReturns(p) ==
    /\ proc'[p].out # proc[p].out
    /\ proc'[p].out.kind = "response" /\ proc'[p].out.from = "cache"

\* C8: build 2 (generation v2) is installed while build 1 (generation v1) is
\* active.  Once the activation of build 2 has completed the cache names
\* are exactly [v2], and from then on no lookup of any strategy returns an
\* entry of generation v1, requests in flight during the activation included.
C8_OldGenerationGone ==
    /\ []((sw[2].state = "activated" /\ sw[1].step # "failed")
             => CacheKeys = {CacheNameOf(2)})
    /\ [][(sw[2].state = "activated" /\ sw[1].step # "failed") =>
             \A p \in DOMAIN proc :
                 LookupReturns(p) => cacheObj[proc'[p].out.gen].name # CacheNameOf(1)
         ]_vars

\* the install of build w failed
InstallFailed(w) == sw[w].step = "failed"

\* C9: when the fetch of one manifest URL fails during install, the install
\* fails as a whole.  The failing step stores nothing and changes neither
\* the cache names nor the active worker; the generation the attempt opened
\* holds none of the manifest responses; the worker is discarded and never
\* activated; and a build that was active stays the active worker, its
\* generation in place with every manifest entry.
C9_InstallAbort ==
    /\ [](\A w \in Workers : InstallFailed(w) =>
            /\ sw[w].state = "redundant"
            /\ active # w
            /\ cacheObj[sw[w].cache].entries = <<>>
            /\ (w = 2 /\ ~InstallFailed(1)) =>
                  /\ active = 1 /\ sw[1].state = "activated"
                  /\ CacheNameOf(1) \in CacheKeys
                  /\ ManifestUrls \subseteq DOMAIN cacheObj[IdOf(CacheNameOf(1))].entries)
    /\ [][\A w \in Workers :
            /\ (~InstallFailed(w) /\ InstallFailed(w)') =>
                  /\ sw[w].state = "installing"
                  /\ cacheObj' = cacheObj /\ cacheNames' = cacheNames
                  /\ active' = active /\ idb' = idb /\ proc' = proc
            /\ InstallFailed(w) => sw'[w] = sw[w]
         ]_vars

\* build 2 failed to install while build 1 was active, and build 1 went on
\* to answer a navigation from its generation
C9_Witness ==
    /\ InstallFailed(2)
    /\ active = 1
    /\ cacheObj[sw[2].cache].name = CacheNameOf(2)
    /\ \E p \in DOMAIN proc : IsCacheFirst(p) /\ Hit(p) /\ proc[p].w = 1

(***************************************************************************)
(* Properties of dynamicCaching and of the strategies' failure paths.       *)
(***************************************************************************)
IsOpportunistic(p) == proc[p].strategy = "OpportunisticCache"

\* the handler obtained a response from the network
Fetched(p) == proc[p].fetches = 1 /\ proc[p].resp # NoResp

\* the handler's fetch rejected
FetchFailed(p) == proc[p].fetches = 1 /\ proc[p].resp = NoResp

\* C11: when its fetch fails, dynamicCaching returns the stored response of
\* the exact request if there is one, and otherwise the response stored
\* under the fixed offline-fallback key, which is the key cacheFirstStrategy
\* uses for its fallback.
C11_OpportunisticFallback ==
    [][\A p \in DOMAIN proc :
          (IsOpportunistic(p) /\ proc[p].pc = "dc_catch" /\ FetchFailed(p)
             /\ proc'[p].pc = "done") =>
                /\ FallbackKey = OfflineKey
                /\ IF HoldersOf(proc[p].req.url) # {}
                   THEN proc'[p].out = CachesMatch(proc[p].req.url)
                   ELSE proc'[p].out = CachesMatch(FallbackKey)
      ]_vars

\* C12: when its fetch yields a response, dynamicCaching returns that live
\* response whatever its status, and it has issued a write of the response
\* into the generation it opened if and only if the status is a success
\* status.
C12_LiveResponseAlways ==
    \A p \in DOMAIN proc : (IsOpportunistic(p) /\ Done(p) /\ Fetched(p)) =>
        /\ proc[p].out = FromNetwork(proc[p].resp)
        /\ Ok(proc[p].resp) <=> proc[p].cWrites = 1

\* C13: in every strategy, a handler whose fetch has produced a response
\* returns that response even when the store write (or the decoding) that
\* follows fails.
C13_WriteFailureKeepsResponse ==
    \A p \in DOMAIN proc : (Done(p) /\ Fetched(p)) =>
        proc[p].out = FromNetwork(proc[p].resp)

\* C14: when the fetch fails and no fallback is stored, cacheFirstStrategy
\* and dynamicCaching still hand back a response object: the handler never
\* ends with undefined and never rejects.
C14_AlwaysAResponse ==
    \A p \in DOMAIN proc :
        ((IsCacheFirst(p) \/ IsOpportunistic(p)) /\ Done(p) /\ FetchFailed(p))
            => proc[p].out.kind = "response"

\* the handler returns with this step
Returns(p) == proc[p].pc # "done" /\ proc'[p].pc = "done"

\* after this step the handle of p holds resp under the request of p
CommittedAfter(p) ==
    /\ proc[p].req.url \in DOMAIN cacheObj'[proc[p].cache].entries
    /\ cacheObj'[proc[p].cache].entries[proc[p].req.url] = proc[p].resp

\* C15: write before return.  A cacheFirstStrategy or networkFirstStrategy
\* call returns the response it got from the network only with (or after)
\* the commit of its own store write; a dynamicCaching call that has issued
\* a write does not finish before that write has committed or has failed
\* (the failure taking it to the catch block, which logs it).
C15_WriteBeforeReturn ==
    [][\A p \in DOMAIN proc :
          /\ (Returns(p) /\ IsCacheFirst(p) /\ proc'[p].out.from = "network") =>
                /\ proc[p].pc = "cf_put" /\ proc'[p].cWrites = 1
                /\ CommittedAfter(p)
          /\ (Returns(p) /\ IsNetworkFirst(p) /\ proc'[p].out.from = "network") =>
                /\ proc[p].pc = "nf_add" /\ proc'[p].iWrites = 1
                /\ proc[p].req.url \in DOMAIN idb'
                /\ idb'[proc[p].req.url] =
                      Record(proc[p].req.url, JSONParse(proc[p].resp.body))
          /\ (IsOpportunistic(p) /\ proc[p].pc = "dc_put" /\ proc'[p].pc # "dc_put") =>
                \/ proc'[p].pc = "done" /\ CommittedAfter(p)
                \/ proc'[p].pc = "dc_catch" /\ cacheObj' = cacheObj
      ]_vars

\* a cacheFirstStrategy call and a networkFirstStrategy call have each
\* returned the network response, with the write committed
C15_Witness ==
    /\ \E p, q \in DOMAIN proc :
          /\ p # q
          /\ IsCacheFirst(p) /\ Done(p) /\ proc[p].out.from = "network"
          /\ proc[p].cWrites = 1 /\ Has(proc[p].cache, proc[p].req.url)
          /\ IsNetworkFirst(q) /\ Done(q) /\ proc[q].out.from = "network"
          /\ proc[q].iWrites = 1 /\ proc[q].req.url \in DOMAIN idb

(***************************************************************************)
(* Properties of the activation order and of the generations.               *)
(***************************************************************************)
\* the generation of build w exists and holds every manifest URL
Populated(w) ==
    /\ CacheNameOf(w) \in CacheKeys
    /\ ManifestUrls \subseteq DOMAIN cacheObj[IdOf(CacheNameOf(w))].entries

\* clearOldCaches of build w has started and not yet finished
Sweeping(w) == sw[w].state = "activating"

\* C16: a worker becomes installed only from installing, activating only
\* from installed and active only from activating; and clearOldCaches never
\* starts before cacheCoreAssets has stored every manifest URL in the new
\* generation, although skipWaiting() was called while cacheCoreAssets was
\* still running.
C16_LifecycleOrder ==
    /\ [](\A w \in Workers :
            /\ sw[w].state = "installing" => sw[w].skipWaiting
            /\ sw[w].state \in {"installed", "activating", "activated"} => Populated(w))
    /\ [][\A w \in Workers : sw'[w].state # sw[w].state =>
            /\ sw'[w].state = "installing" => sw[w].state = "none"
            /\ sw'[w].state = "installed" => sw[w].state = "installing"
            /\ sw'[w].state = "activating" => sw[w].state = "installed" /\ Populated(w)
            /\ sw'[w].state = "activated" => sw[w].state = "activating"
            /\ sw'[w].state = "redundant" => sw[w].state \in {"installing", "activated"}
         ]_vars

\* the second build's sweep is deleting the first build's generation
C16_Witness ==
    /\ Sweeping(2) /\ sw[2].step = "delete" /\ sw[2].pending # {}
    /\ sw[2].skipWaiting /\ Populated(2)

\* C17: while clearOldCaches is deleting the other generations, with
\* requests in flight, no lookup of a strategy, the catch blocks' lookups
\* through caches.match included, returns an entry held in a generation
\* other than the active worker's.
C17_SweepIsolation ==
    [][(\E w \in Workers : Sweeping(w)) =>
          \A p \in DOMAIN proc :
              LookupReturns(p) =>
                  cacheObj[proc'[p].out.gen].name = CacheNameOf(active)
      ]_vars

(***************************************************************************)
(* Store separation.                                                        *)
(***************************************************************************)
\* the handler p takes this step
Steps(p) == proc'[p] # proc[p]

\* the caches, names and contents, are as they were
CachesUnchanged == cacheNames' = cacheNames /\ cacheObj' = cacheObj

\* C18: a networkFirstStrategy call reads and writes IndexedDB only and
\* leaves every cache unchanged; cacheFirstStrategy and dynamicCaching calls
\* read and write the caches only and leave IndexedDB unchanged; so do the
\* install and activate steps.
C18_StoreSeparation ==
    [][/\ \A p \in DOMAIN proc :
            /\ (Steps(p) /\ proc'[p].strategy = "NetworkFirstStructured") =>
                  /\ CachesUnchanged
                  /\ proc'[p].cReads = 0 /\ proc'[p].cWrites = 0
                  /\ proc'[p].cache = 0 /\ proc'[p].out.from # "cache"
            /\ (Steps(p) /\ proc'[p].strategy \in {"CacheFirst", "OpportunisticCache"}) =>
                  /\ idb' = idb
                  /\ proc'[p].iReads = 0 /\ proc'[p].iWrites = 0
                  /\ proc'[p].out.from # "idb"
       /\ sw' # sw => idb' = idb
      ]_vars

\* all three strategies have run and the second build has swept: IndexedDB
\* holds a record, and the first build's cache, written by a handler, is gone
C18_Witness ==
    /\ idb # <<>>
    /\ sw[2].state = "activated"
    /\ \E p, q \in DOMAIN proc :
          /\ IsNetworkFirst(p) /\ Done(p) /\ proc[p].iWrites = 1
          /\ ~IsNetworkFirst(q) /\ Done(q) /\ proc[q].cWrites = 1
          /\ proc[q].out.from = "network"

(***************************************************************************)
(* The active generation.                                                   *)
(***************************************************************************)
\* C19: once a worker is active, whatever requests it serves and through
\* its own clearOldCaches, its generation exists and holds every manifest
\* URL.
C19_ActiveGenerationIntact ==
    \A w \in Workers :
        (active = w /\ sw[w].state \in {"activating", "activated"}) => Populated(w)

\* the second build is active after its sweep deleted the first build's
\* generation, and has served a request that wrote into its own generation
C19_Witness ==
    /\ active = 2 /\ sw[2].state = "activated" /\ Populated(2)
    /\ CacheNameOf(1) \notin CacheKeys
    /\ \E p \in DOMAIN proc :
          /\ proc[p].w = 2 /\ Done(p) /\ proc[p].cWrites = 1
          /\ proc[p].out.from = "network"
          /\ Has(IdOf(CacheNameOf(2)), proc[p].req.url)

====
